---- MODULE Spec2Model ----
(***************************************************************************)
(* Speech-session lifecycle of the dictation overlay: the useVoiceRecording *)
(* hook (start/stop, the callbacks it hands to the link), DeepgramService   *)
(* (one streaming connection and its event handlers), AudioService (the     *)
(* microphone capture) and the hotkey handlers App registers at mount.      *)
(*                                                                          *)
(* Scheduling: JavaScript's single-threaded event loop.  One action of this *)
(* module is one macrotask (a hotkey press, a socket event, the resolution  *)
(* of getUserMedia or of a Tauri invoke, a timer) together with all the     *)
(* microtask continuations it queues: an await of an async function that    *)
(* itself never waits (DeepgramService.start, DeepgramService.stop) resumes *)
(* before any other macrotask runs, so it is no interleaving point.         *)
(* React state read by a closure is the value of the render that created    *)
(* the closure; a render is taken to be committed before the next           *)
(* macrotask.                                                               *)
(***************************************************************************)
EXTENDS Integers, Sequences, FiniteSets, TLC

\* ------------------------------------------------------------------ bounds
MaxLinks == 2        \* DeepgramService instances created in one run
MaxInFlight == 1     \* paste requests followed to completion at once (paste, timer, hide)
MaxSegs == 1         \* segments a link commits to finalTranscript before it is reset
MaxWords == 2        \* the same, in the runs of one session (SpecLink)
MaxChunks == 2       \* audio chunks the recorders produce (SpecLink)

\* ------------------------------------------------------------------ values
NULL == "<null>"                       \* error === null
NoLink == 0                            \* deepgramRef.current === null

\* Strings are sequences of characters; "" is <<>> (falsy in the code).
Texts == {<<>>, <<"h">>}               \* data.channel.alternatives[0].transcript
Words == {<<>>, <<"h">>, <<"w">>}      \* the same, in the runs of one session (SpecLink)

ErrFailedStart == "Failed to start recording"
ErrFailedPaste == "Failed to paste text"
ErrDeepgram == "Deepgram error"
ErrOpen == "A deepgram API key is required"   \* message of what createClient throws
ErrMessages == {""}                    \* error.message of an Error event


VARIABLES
    \* useVoiceRecording: React state
    isRecording, transcript, isProcessing, error,
    \* useVoiceRecording: refs
    deepgramRef, hasEndedRef, isStartingRef,
    \* AudioService fields, and the captures the OS holds open for this page
    mediaRecorder, audioStream, liveStreams,
    \* every DeepgramService constructed so far, in construction order
    links,
    \* suspended continuations
    gumPending,      \* startRecording calls awaiting getUserMedia
    pastePending,    \* onSpeechEnd calls awaiting invoke("copy_and_paste_text")
    pasteText,       \* the { text } of the awaited request: <<text>>, or <<>> if none
    timerPending,    \* setTimeout(..., 1000) callbacks not yet run
    hidePending,     \* timer callbacks awaiting invoke("hide_recording_pill")
    produced,        \* dataavailable events so far; the chunks are numbered by them
    converting,      \* the chunks whose event.data.arrayBuffer() is awaited
    lastHanded,      \* the chunk last passed to onAudioData (0: none yet)
    \* history
    epoch,           \* since hasEndedRef was last reset: "none" after an accepted
                     \* start, "cancelled"/"stopped" after stop() (called while
                     \* Listening or not), then the end signal that was honoured
    lastAct          \* what the last macrotask did

vars == <<isRecording, transcript, isProcessing, error, deepgramRef, hasEndedRef,
          isStartingRef, mediaRecorder, audioStream, liveStreams, links,
          gumPending, pastePending, pasteText, timerPending, hidePending,
          produced, converting, lastHanded,
          epoch, lastAct>>

\* The state as one record, so that handlers compose as the code runs them.
St ==
    [isRecording |-> isRecording, transcript |-> transcript,
     isProcessing |-> isProcessing, error |-> error,
     deepgramRef |-> deepgramRef, hasEndedRef |-> hasEndedRef,
     isStartingRef |-> isStartingRef, mediaRecorder |-> mediaRecorder,
     audioStream |-> audioStream, liveStreams |-> liveStreams, links |-> links,
     gumPending |-> gumPending,
     pastePending |-> pastePending, pasteText |-> pasteText,
     timerPending |-> timerPending,
     hidePending |-> hidePending,
     produced |-> produced, converting |-> converting, lastHanded |-> lastHanded,
     epoch |-> epoch,
     lastAct |-> lastAct]

Commit(s) ==
    /\ isRecording' = s.isRecording /\ transcript' = s.transcript
    /\ isProcessing' = s.isProcessing /\ error' = s.error
    /\ deepgramRef' = s.deepgramRef /\ hasEndedRef' = s.hasEndedRef
    /\ isStartingRef' = s.isStartingRef /\ mediaRecorder' = s.mediaRecorder
    /\ audioStream' = s.audioStream /\ liveStreams' = s.liveStreams
    /\ links' = s.links
    /\ gumPending' = s.gumPending /\ pastePending' = s.pastePending
    /\ pasteText' = s.pasteText
    /\ timerPending' = s.timerPending /\ hidePending' = s.hidePending
    /\ produced' = s.produced /\ converting' = s.converting
    /\ lastHanded' = s.lastHanded
    /\ epoch' = s.epoch /\ lastAct' = s.lastAct

\* lastAct names the last macrotask when it is one the properties speak of.
Tracked ==
    {"startAccepted", "startOpenFailed", "startIgnored", "stop",
     "micOk", "micFailed", "sfHonoured", "sfIgnored", "ueHonoured", "ueIgnored",
     "ueNoop", "linkError", "pasteFailed", "pasteOk", "timer", "hideOk",
     "hideFailed", "escapeStop", "escapeMissed", "chunk"}

Did(s, what) == [s EXCEPT !.lastAct = IF what \in Tracked THEN what ELSE "other"]

\* ------------------------------------------------------- DeepgramService
\* sock is the WebSocket behind this.connection: getReadyState() === 1 iff "open".
\* finishes counts the connection.finish() calls made on it.  committed lists the
\* texts of the final results added to finalTranscript since it was last empty
\* by construction or by stop().  sent counts the connection.send() calls.
NewLink ==
    [connection |-> FALSE, sock |-> "none", finalTranscript |-> <<>>,
     interimTranscript |-> <<>>, hasSpeechFinal |-> FALSE, finishes |-> 0,
     committed |-> <<>>, sent |-> 0]

\* finalTranscript + (finalTranscript ? " " : "") + transcript
Join_noSpace(final, text) == final \o text

Join(final, text) == final \o (IF final # <<>> THEN <<" ">> ELSE <<>>) \o text

\* DeepgramService.sendAudio
SendAudio_unguarded(L) == [L EXCEPT !.sent = @ + 1]

SendAudio(L) ==
    [L EXCEPT !.sent = IF L.connection /\ L.sock = "open" THEN @ + 1 ELSE @]

\* DeepgramService.stop
LinkStop_refinish(L) ==
    [L EXCEPT !.finishes = IF L.sock = "open" THEN @ + 1 ELSE @,
              !.connection = FALSE,
              !.finalTranscript = <<>>,
              !.interimTranscript = <<>>,
              !.hasSpeechFinal = FALSE,
              !.committed = <<>>]

LinkStop(L) ==
    [L EXCEPT !.finishes = IF L.connection /\ L.sock = "open" THEN @ + 1 ELSE @,
              !.connection = FALSE,
              !.finalTranscript = <<>>,
              !.interimTranscript = <<>>,
              !.hasSpeechFinal = FALSE,
              !.committed = <<>>]

\* deepgramRef.current?.stop()
RefStop(s) ==
    IF s.deepgramRef = NoLink THEN s
    ELSE [s EXCEPT !.links[s.deepgramRef] = LinkStop(@)]

\* ----------------------------------------------------------- AudioService
\* AudioService.stopRecording
AudioStop(s) ==
    [s EXCEPT !.liveStreams = IF s.audioStream THEN @ - 1 ELSE @,
              !.audioStream = FALSE,
              !.mediaRecorder = FALSE]

\* the dataavailable callback startRecording hands to AudioService:
\* deepgramRef.current?.sendAudio(audioData)
OnAudioData(s) ==
    IF s.deepgramRef = NoLink THEN s
    ELSE [s EXCEPT !.links[s.deepgramRef] = SendAudio(@)]

\* ------------------------------------------------------ hook callbacks
\* callbacks.onTranscript
OnTranscript(s, text) == [s EXCEPT !.transcript = text]

\* callbacks.onError
OnError(s, message) ==
    [s EXCEPT !.error = message, !.isRecording = FALSE, !.isStartingRef = FALSE]

\* callbacks.onSpeechEnd, the latch
EndLatched_never(s) == FALSE

EndLatched(s) == s.hasEndedRef

\* callbacks.onSpeechEnd up to its first await: the caller resumes after this
OnSpeechEndSync_noLatch(s, sig) ==
    IF EndLatched(s) THEN s
    ELSE RefStop(AudioStop([s EXCEPT !.epoch = sig]))

OnSpeechEndSync(s, sig) ==
    IF EndLatched(s) THEN s
    ELSE RefStop(AudioStop([s EXCEPT !.hasEndedRef = TRUE, !.epoch = sig]))

\* invoke("copy_and_paste_text") is requested.  At most MaxInFlight requests are
\* followed to their completion; one issued beyond that never settles.
InFlight(s) == s.pastePending + s.timerPending + s.hidePending

PasteRequested(s, finalText) ==
    IF InFlight(s) < MaxInFlight
    THEN [s EXCEPT !.pastePending = @ + 1, !.pasteText = <<finalText>>]
    ELSE s

\* callbacks.onSpeechEnd after `await deepgramRef.current?.stop()`, up to the
\* await of invoke("copy_and_paste_text")
OnSpeechEndRest(s, finalText) ==
    PasteRequested([s EXCEPT !.deepgramRef = NoLink,
                             !.isRecording = FALSE,
                             !.isProcessing = TRUE], finalText)


\* ------------------------------------------- DeepgramService event handlers
\* the Transcript handler's branch for a final result
FinalBranch_overwrites(L, text) ==
    [L EXCEPT !.finalTranscript = text,
              !.interimTranscript = <<>>,
              !.committed = Append(@, text)]

FinalBranch(L, text) ==
    [L EXCEPT !.finalTranscript = Join(@, text),
              !.interimTranscript = <<>>,
              !.committed = Append(@, text)]

\* the Transcript handler's branch for an interim result
InterimBranch_appends(L, text) == [L EXCEPT !.interimTranscript = @ \o text]

InterimBranch(L, text) == [L EXCEPT !.interimTranscript = text]

\* what the Transcript handler passes to onTranscript
Shown(L, isFinal) ==
    IF isFinal THEN L.finalTranscript
    ELSE Join(L.finalTranscript, L.interimTranscript)

\* what the handlers pass to onSpeechEnd
EndText(L) == L.finalTranscript

\* `if (!transcript) return;`
Falsy_never(text) == FALSE

Falsy(text) == text = <<>>

\* connection.on(Transcript): data.is_final = isFinal, data.speech_final = speechFinal
HandleTranscript(s, l, text, isFinal, speechFinal) ==
    IF Falsy(text) THEN Did(s, "transcriptEmpty")
    ELSE
      LET L1 == IF isFinal THEN FinalBranch(s.links[l], text)
                ELSE InterimBranch(s.links[l], text)
          s1 == OnTranscript([s EXCEPT !.links[l] = L1], Shown(L1, isFinal))
      IN IF speechFinal /\ ~L1.hasSpeechFinal
         THEN LET s2 == [s1 EXCEPT !.links[l].hasSpeechFinal = TRUE]
                  s3 == OnSpeechEndSync(s2, "speech_final")
                  s4 == [s3 EXCEPT !.links[l] = LinkStop(@)]       \* this.stop()
              IN IF EndLatched(s2) THEN Did(s4, "sfIgnored")
                 ELSE Did(OnSpeechEndRest(s4, EndText(L1)), "sfHonoured")
         ELSE Did(s1, IF isFinal THEN "final" ELSE "interim")

\* connection.on(UtteranceEnd)
HandleUtteranceEnd(s, l) ==
    IF ~s.links[l].hasSpeechFinal /\ s.links[l].finalTranscript # <<>>
    THEN IF EndLatched(s) THEN Did(OnSpeechEndSync(s, "utterance_end"), "ueIgnored")
         ELSE Did(OnSpeechEndRest(OnSpeechEndSync(s, "utterance_end"),
                                  EndText(s.links[l])), "ueHonoured")
    ELSE Did(s, "ueNoop")

\* connection.on(Error): new Error(error.message || "Deepgram error")
HandleError(s, l, message) ==
    Did(OnError(s, IF message # "" THEN message ELSE ErrDeepgram),
        IF l = s.deepgramRef THEN "linkError" ELSE "oldLinkError")

\* DeepgramService.start: createClient / listen.live throw, or the socket is created
LinkStart(s, l, openFails) ==
    IF openFails THEN OnError(s, ErrOpen)
    ELSE [s EXCEPT !.links[l].connection = TRUE, !.links[l].sock = "connecting"]

\* ----------------------------------------------------- useVoiceRecording
\* The session is Listening: start() has completed, the microphone is captured,
\* the link's connection is open, and no end signal has been honoured.
Listening(s) ==
    /\ s.isRecording /\ ~s.isStartingRef /\ s.gumPending = 0
    /\ s.audioStream /\ s.mediaRecorder /\ ~s.hasEndedRef
    /\ s.deepgramRef # NoLink
    /\ s.links[s.deepgramRef].connection /\ s.links[s.deepgramRef].sock = "open"

\* startRecording's guard; isRec is the isRecording its closure captured
StartRejected(s, isRec) == s.isStartingRef \/ isRec

\* startRecording up to `await audioServiceRef.current.startRecording(...)`
StartRecording(s, isRec, openFails) ==
    IF StartRejected(s, isRec) THEN Did(s, "startIgnored")
    ELSE
      LET s1 == [s EXCEPT !.isStartingRef = TRUE]
          s2 == IF s1.deepgramRef # NoLink
                THEN [RefStop(s1) EXCEPT !.deepgramRef = NoLink] ELSE s1
          s3 == [s2 EXCEPT !.error = NULL, !.transcript = <<>>,
                           !.isRecording = TRUE, !.hasEndedRef = FALSE,
                           !.epoch = "none"]
          s4 == [s3 EXCEPT !.links = Append(@, NewLink),
                           !.deepgramRef = Len(s3.links) + 1]
          s5 == LinkStart(s4, s4.deepgramRef, openFails)
      IN Did([s5 EXCEPT !.gumPending = @ + 1],
             IF openFails THEN "startOpenFailed" ELSE "startAccepted")

\* what the catch of startRecording leaves in isStartingRef
CatchLatch_stale(s) == s.isStartingRef

CatchLatch(s) == FALSE

\* the catch block of startRecording
StartCatch(s) ==
    [s EXCEPT !.error = ErrFailedStart, !.isRecording = FALSE,
              !.isStartingRef = CatchLatch(s)]

\* a resumption that leaves isStartingRef set after the microphone has started
MicResumed_keepsLatch(s, granted) ==
    LET s0 == [s EXCEPT !.gumPending = @ - 1]
    IN IF granted
       THEN Did([s0 EXCEPT !.audioStream = TRUE, !.liveStreams = @ + 1,
                           !.mediaRecorder = TRUE], "micOk")
       ELSE Did(StartCatch(s0), "micFailed")

\* AudioService.startRecording resumes from getUserMedia, then startRecording
\* resumes: getUserMedia resolved (granted) or rejected
MicResumed(s, granted) ==
    LET s0 == [s EXCEPT !.gumPending = @ - 1]
    IN IF granted
       THEN Did([s0 EXCEPT !.audioStream = TRUE, !.liveStreams = @ + 1,
                           !.mediaRecorder = TRUE, !.isStartingRef = FALSE], "micOk")
       ELSE Did(StartCatch(s0), "micFailed")

\* stopRecording
StopRecording(s) ==
    LET s1 == [RefStop(AudioStop(s)) EXCEPT !.deepgramRef = NoLink]
    IN [s1 EXCEPT !.isRecording = FALSE, !.hasEndedRef = FALSE,
                  !.isStartingRef = FALSE,
                  !.epoch = IF Listening(s) \/ @ = "cancelled"
                            THEN "cancelled" ELSE "stopped"]

\* onSpeechEnd resumes from invoke("copy_and_paste_text")
PasteResumed_keepsProcessing(s, ok) ==
    LET s0 == [s EXCEPT !.pastePending = @ - 1, !.pasteText = <<>>]
    IN IF ok THEN Did([s0 EXCEPT !.timerPending = @ + 1], "pasteOk")
       ELSE Did([s0 EXCEPT !.error = ErrFailedPaste, !.isStartingRef = FALSE],
                "pasteFailed")

PasteResumed(s, ok) ==
    LET s0 == [s EXCEPT !.pastePending = @ - 1, !.pasteText = <<>>]
    IN IF ok THEN Did([s0 EXCEPT !.timerPending = @ + 1], "pasteOk")
       ELSE Did([s0 EXCEPT !.error = ErrFailedPaste, !.isProcessing = FALSE,
                           !.isStartingRef = FALSE], "pasteFailed")

\* the setTimeout callback up to `await invoke("hide_recording_pill")`
TimerFired(s) ==
    Did([s EXCEPT !.timerPending = @ - 1, !.hidePending = @ + 1], "timer")

\* the setTimeout callback resumes from invoke("hide_recording_pill")
HideResumed(s, ok) ==
    LET s0 == [s EXCEPT !.hidePending = @ - 1]
    IN IF ok THEN Did([s0 EXCEPT !.isProcessing = FALSE, !.transcript = <<>>,
                                 !.isStartingRef = FALSE], "hideOk")
       ELSE Did(s0, "hideFailed")

\* ------------------------------------------------------------------- App
\* The effect that registers the hotkeys has no dependencies: its handlers keep
\* the isRecording, startRecording and stopRecording of the first render.
MountIsRecording == FALSE

\* the Escape handler (after stopRecording it requests the overlay hide, and
\* nothing follows that request)
EscapeHandler(s) ==
    IF MountIsRecording THEN Did(StopRecording(s), "escapeStop")
    ELSE Did(s, IF s.isRecording THEN "escapeMissed" ELSE "escapeNoop")


\* --------------------------------------------------------------- actions
Init ==
    /\ isRecording = FALSE /\ transcript = <<>> /\ isProcessing = FALSE
    /\ error = NULL
    /\ deepgramRef = NoLink /\ hasEndedRef = FALSE /\ isStartingRef = FALSE
    /\ mediaRecorder = FALSE /\ audioStream = FALSE /\ liveStreams = 0
    /\ links = <<>>
    /\ gumPending = 0 /\ pastePending = 0 /\ pasteText = <<>>
    /\ timerPending = 0 /\ hidePending = 0
    /\ produced = 0 /\ converting = {} /\ lastHanded = 0
    /\ epoch = "none"
    /\ lastAct = "other"

\* The model's bounds on what one run creates.
Within(s) == Len(s.links) <= MaxLinks

\* A DeepgramService that deepgramRef no longer holds and whose socket is closed
\* (or was never created) is unreachable: no handler of it runs again.  Its
\* fields are dropped, as the garbage collector drops the object.
Collected == [NewLink EXCEPT !.sock = "closed"]

Collect(s) ==
    [s EXCEPT !.links =
        [l \in 1..Len(s.links) |->
            IF l # s.deepgramRef /\ s.links[l].sock \in {"none", "closed"}
            THEN Collected ELSE s.links[l]]]

Take(s) == Within(s) /\ Commit(Collect(s))

\* The Alt+Space handler resumes from invoke("show_recording_pill"): on success
\* it calls the startRecording of the first render, on failure it only logs.
\* (A press changes no state of this model and may come at any time, so a
\* handler waiting for this invoke may exist at any time.)
HotkeyStart ==
    \E ok \in BOOLEAN, openFails \in BOOLEAN :
         IF ok THEN Take(StartRecording(St, MountIsRecording, openFails))
         ELSE ~openFails /\ Take(Did(St, "showFailed"))

\* startRecording called through the current render's closure
DirectStart ==
    \E openFails \in BOOLEAN :
        LET s == StartRecording(St, isRecording, openFails)
        IN Within(s) /\ Commit(Collect(s))

\* stopRecording called
DirectStop ==
    LET s == Did(StopRecording(St), "stop")
    IN Within(s) /\ Commit(Collect(s))

\* Escape pressed
EscapePress == LET s == EscapeHandler(St) IN Within(s) /\ Commit(Collect(s))

\* getUserMedia settles
MicSettles ==
    /\ gumPending > 0
    /\ \E granted \in BOOLEAN : Take(MicResumed(St, granted))

\* invoke("copy_and_paste_text") settles
PasteSettles ==
    /\ pastePending > 0
    /\ \E ok \in BOOLEAN : Take(PasteResumed(St, ok))

\* the 1000 ms timer fires
TimerFires == timerPending > 0 /\ Take(TimerFired(St))

\* invoke("hide_recording_pill") settles
HideSettles ==
    /\ hidePending > 0
    /\ \E ok \in BOOLEAN : Take(HideResumed(St, ok))

LinkIds == 1..Len(links)

\* the WebSocket of link l completes its handshake
SockOpen ==
    \E l \in LinkIds :
        /\ links[l].sock = "connecting"
        /\ Take(Did([St EXCEPT !.links[l].sock = "open"], "sockOpen"))

\* the WebSocket of link l closes (the server ends the stream, or the network does)
SockClose ==
    \E l \in LinkIds :
        /\ links[l].sock \in {"connecting", "open"}
        /\ Take(Did([St EXCEPT !.links[l].sock = "closed"], "sockClose"))

\* the segments of a final transcript (the texts of Texts hold no space)
Segments(final) ==
    IF final = <<>> THEN 0
    ELSE 1 + Cardinality({i \in 1..Len(final) : final[i] = " "})

\* a Results message arrives on the WebSocket of link l; speech_final results
\* are final results
SockTranscript ==
    \E l \in LinkIds, text \in Texts, isFinal \in BOOLEAN, speechFinal \in BOOLEAN :
        /\ links[l].sock = "open"
        /\ speechFinal => isFinal
        /\ (isFinal /\ text # <<>>) => Segments(links[l].finalTranscript) < MaxSegs
        /\ Take(HandleTranscript(St, l, text, isFinal, speechFinal))

\* an UtteranceEnd message arrives on the WebSocket of link l
SockUtteranceEnd ==
    \E l \in LinkIds :
        /\ links[l].sock = "open"
        /\ Take(HandleUtteranceEnd(St, l))

\* the WebSocket of link l reports an error
SockError ==
    \E l \in LinkIds, message \in ErrMessages :
        /\ links[l].sock \in {"connecting", "open"}
        /\ Take(HandleError(St, l, message))

Next ==
    \/ HotkeyStart \/ DirectStart \/ DirectStop \/ EscapePress
    \/ MicSettles \/ PasteSettles \/ TimerFires \/ HideSettles
    \/ SockOpen \/ SockClose \/ SockTranscript \/ SockUtteranceEnd \/ SockError

Spec == Init /\ [][Next]_vars

\* ------------------------------------------- one session, on its own link
\* The runs of one start(): the link is the only one there is, its results carry
\* two different words, and the recorder hands its chunks to the link.

\* the first start() of the run
FirstStart ==
    \E openFails \in BOOLEAN :
        /\ links = <<>>
        /\ LET s == StartRecording(St, isRecording, openFails)
           IN Within(s) /\ Commit(Collect(s))

\* a Results message arrives on the WebSocket of the link
WordResult ==
    \E l \in LinkIds, text \in Words, isFinal \in BOOLEAN, speechFinal \in BOOLEAN :
        /\ links[l].sock = "open"
        /\ speechFinal => isFinal
        /\ (isFinal /\ text # <<>>) => Segments(links[l].finalTranscript) < MaxWords
        /\ Take(HandleTranscript(St, l, text, isFinal, speechFinal))

\* a MediaRecorder fires dataavailable: the listener starts to convert the chunk
\* (`await event.data.arrayBuffer()`)
DataAvailable ==
    /\ mediaRecorder /\ produced < MaxChunks
    /\ Take(Did([St EXCEPT !.produced = @ + 1,
                           !.converting = @ \cup {produced + 1}], "dataavailable"))

\* the arrayBuffer() of one of the chunks resolves and the listener passes the
\* buffer to onAudioData; the reads of two chunks are independent of each other
\* and nothing orders their completions
AudioChunk ==
    \E c \in converting :
        Take(Did([OnAudioData(St) EXCEPT !.converting = @ \ {c},
                                        !.lastHanded = c], "chunk"))

NextLink ==
    \/ FirstStart \/ DirectStop
    \/ MicSettles \/ PasteSettles \/ TimerFires \/ HideSettles
    \/ SockOpen \/ SockClose \/ WordResult \/ SockUtteranceEnd
    \/ DataAvailable \/ AudioChunk

SpecLink == Init /\ [][NextLink]_vars


\* ------------------------------------------------------------ properties
StartLabels == {"startAccepted", "startOpenFailed", "startIgnored"}
Accepted == {"startAccepted", "startOpenFailed"}
SfLabels == {"sfHonoured", "sfIgnored"}            \* a speech_final Transcript called onSpeechEnd
UeLabels == {"ueHonoured", "ueIgnored", "ueNoop"}  \* an UtteranceEnd arrived
Honoured == {"sfHonoured", "ueHonoured"}           \* onSpeechEnd passed the latch
Ignored == {"sfIgnored", "ueIgnored"}              \* onSpeechEnd returned at the latch
EndLabels == Honoured \cup Ignored                 \* onSpeechEnd was delivered

\* connection.finish() calls are the same before and after the step
SameFinishes ==
    /\ Len(links') = Len(links)
    /\ \A l \in 1..Len(links) : links'[l].finishes = links[l].finishes

\* the step tore nothing down, moved to no other phase and settled or issued no paste
NoTeardownNoPaste ==
    /\ UNCHANGED <<mediaRecorder, audioStream, liveStreams, deepgramRef,
                   isRecording, isProcessing, hasEndedRef,
                   pastePending, pasteText, timerPending, hidePending>>
    /\ SameFinishes

\* connections that are open and were never asked to finish
OpenConnections == {l \in 1..Len(links) : links[l].sock = "open" /\ links[l].finishes = 0}

\* C1: when onSpeechEnd is delivered right after a delivery that was honoured, it
\* returns at the latch: no microphone stop, no link close, no change of phase and
\* no paste request; the honoured delivery itself has stopped the microphone,
\* discarded the link and entered Processing.
C1_SpeechEndIdempotent ==
    [][ /\ lastAct' \in Honoured =>
              /\ hasEndedRef' /\ ~audioStream' /\ ~mediaRecorder'
              /\ deepgramRef' = NoLink /\ ~isRecording' /\ isProcessing'
        /\ (lastAct \in Honoured /\ lastAct' \in EndLabels) =>
              (lastAct' \in Ignored /\ NoTeardownNoPaste) ]_vars

C1_Witness ==
    /\ lastAct \in Ignored /\ hasEndedRef /\ isProcessing /\ ~isRecording
    /\ pastePending = 1 /\ epoch \in {"speech_final", "utterance_end"}

\* C2: once one of the two end signals has been honoured, the other signal of the
\* same latch epoch (no start or stop in between), whichever of the two it is,
\* is not honoured: it tears nothing down and issues no paste.
C2_EndSignalsEitherOrder ==
    [][ (\/ (epoch = "speech_final" /\ lastAct' \in UeLabels)
         \/ (epoch = "utterance_end" /\ lastAct' \in SfLabels)) =>
            (lastAct' \notin Honoured /\ NoTeardownNoPaste) ]_vars

C2_Witness == epoch = "utterance_end" /\ lastAct = "sfIgnored" /\ pastePending = 1

\* C3: right after the first start() of a run was accepted (from Idle), a second
\* start() is ignored and opens or closes nothing.
C3_DoubleStartOnePair ==
    [][ (lastAct \in Accepted /\ Len(links) = 1 /\ lastAct' \in StartLabels) =>
            /\ lastAct' = "startIgnored"
            /\ UNCHANGED <<links, deepgramRef, gumPending, liveStreams, audioStream>> ]_vars

\* C4: a start() that arrives while the session is Listening is a no-op.
C4_StartWhileListeningIsNoOp ==
    [][ (Listening(St) /\ lastAct' \in StartLabels) =>
            /\ lastAct' = "startIgnored"
            /\ UNCHANGED <<links, deepgramRef, gumPending, liveStreams, audioStream,
                           mediaRecorder, transcript, error, isRecording,
                           hasEndedRef, isStartingRef>> ]_vars

\* C5: at most one microphone capture is active and at most one connection is open.
C5_OneCaptureOneConnection ==
    liveStreams <= 1 /\ Cardinality(OpenConnections) <= 1

\* C6: after stop() was called while Listening, no paste is requested until a
\* later start() is accepted.
C6_NoPasteAfterStop ==
    [][ epoch = "cancelled" => lastAct' \notin Honoured ]_vars

\* C7: after stop(), once every pending continuation of the start() has run, the
\* system is Idle: not recording, microphone not capturing, no connection open,
\* link reference discarded.
C7_StopLeavesIdle ==
    (epoch \in {"stopped", "cancelled"} /\ gumPending = 0) =>
        /\ ~isRecording /\ ~audioStream /\ liveStreams = 0
        /\ deepgramRef = NoLink /\ OpenConnections = {}

\* C8: when getUserMedia fails, start() ends with isRecording false, error set and
\* isStartingRef cleared, and a start() that comes next is accepted.
C8_MicFailureRestartable ==
    [][ /\ lastAct' = "micFailed" =>
              (~isRecording' /\ error' # NULL /\ ~isStartingRef')
        /\ (lastAct = "micFailed" /\ lastAct' \in StartLabels) =>
              lastAct' \in Accepted ]_vars

C8_Witness ==
    /\ lastAct = "micFailed" /\ error = ErrFailedStart /\ ~isRecording
    /\ ~isStartingRef /\ Len(links) < MaxLinks

\* C9: when the link of the current attempt failed to open, the attempt ends in
\* Error and, once start() has returned, the microphone is not capturing.
C9_OpenFailureClean ==
    (deepgramRef # NoLink /\ links[deepgramRef].sock = "none" /\ gumPending = 0) =>
        /\ ~isRecording /\ error # NULL /\ ~isStartingRef
        /\ ~audioStream /\ liveStreams = 0

\* C10: an error reported by the link of a Listening session ends the session:
\* isRecording false, error set, microphone stopped, link closed.
C10_ProviderErrorEndsSession ==
    [][ (Listening(St) /\ lastAct' = "linkError") =>
            /\ ~isRecording' /\ error' # NULL
            /\ ~audioStream' /\ liveStreams' = 0
            /\ OpenConnections' = {} ]_vars

\* C11: when the paste request fails while the system is Processing (isProcessing,
\* not recording), the error is recorded, isProcessing becomes false and
\* isStartingRef is cleared; a start() that comes next is accepted.
C11_PasteFailureRestartable ==
    [][ /\ (isProcessing /\ ~isRecording /\ lastAct' = "pasteFailed") =>
              (error' = ErrFailedPaste /\ ~isProcessing' /\ ~isStartingRef'
               /\ ~isRecording')
        /\ (lastAct = "pasteFailed" /\ ~isRecording /\ lastAct' \in StartLabels) =>
              lastAct' \in Accepted ]_vars

C11_Witness ==
    /\ lastAct = "pasteFailed" /\ error = ErrFailedPaste /\ ~isProcessing
    /\ ~isRecording /\ ~isStartingRef /\ pastePending = 0 /\ Len(links) < MaxLinks

\* C12: when an end signal is honoured, isRecording becomes false and
\* isProcessing true, and the transcript is not cleared: after a speech_final
\* result it shows the final text that is pasted, after an UtteranceEnd it shows
\* what it showed.  When the paste succeeds the settle timer is started; when it
\* fires the overlay hide is requested; when that request returns isProcessing is
\* false, the transcript is cleared and, no start() having been accepted
\* meanwhile, the system is Idle.
C12_ProcessingThenIdle ==
    [][ /\ lastAct' \in Honoured => (~isRecording' /\ isProcessing')
        /\ (lastAct' = "sfHonoured" /\ pastePending' > pastePending) =>
              (pasteText'[1] # <<>> /\ transcript' = pasteText'[1])
        /\ lastAct' = "ueHonoured" => transcript' = transcript
        /\ lastAct' = "pasteOk" =>
              (timerPending' = timerPending + 1 /\ UNCHANGED <<isProcessing, transcript>>)
        /\ lastAct' = "timer" =>
              (hidePending' = hidePending + 1 /\ UNCHANGED <<isProcessing, transcript>>)
        /\ lastAct' \in {"hideOk", "hideFailed"} =>
              /\ ~isProcessing' /\ transcript' = <<>>
              /\ ~isRecording => ~isRecording' ]_vars

\* C16: when the hide_recording_pill request fails after a successful paste, the
\* controller still sets isProcessing to false, clears the transcript and
\* returns to Idle.
C16_HideFailureNotPropagated ==
    [][ lastAct' = "hideFailed" =>
            (~isProcessing' /\ transcript' = <<>> /\ ~isStartingRef') ]_vars

\* the texts joined by single spaces
RECURSIVE JoinAll(_)
JoinAll(texts) ==
    IF texts = <<>> THEN <<>>
    ELSE IF Len(texts) = 1 THEN texts[1]
    ELSE JoinAll(SubSeq(texts, 1, Len(texts) - 1)) \o <<" ">> \o texts[Len(texts)]

\* C13: after a final result the displayed transcript is every final text the
\* link has committed in the session, in order and joined by single spaces, and
\* holds no interim text (also when the result is the speech_final one that
\* ends the session).
C13_FinalShowsCommitted ==
    [][ /\ \A l \in 1..Len(links) :
              (/\ Len(links') = Len(links)
               /\ Len(links'[l].committed) = Len(links[l].committed) + 1) =>
                  /\ SubSeq(links'[l].committed, 1, Len(links[l].committed))
                        = links[l].committed
                  /\ links'[l].finalTranscript = JoinAll(links'[l].committed)
                  /\ links'[l].interimTranscript = <<>>
                  /\ transcript' = JoinAll(links'[l].committed)
        /\ lastAct' \in SfLabels =>
              \E l \in 1..Len(links), text \in Words \ {<<>>} :
                  /\ links[l].sock = "open"
                  /\ transcript' = JoinAll(Append(links[l].committed, text)) ]_vars

C13_Witness ==
    \E l \in 1..Len(links) :
        /\ links[l].committed = << <<"h">>, <<"w">> >>
        /\ links[l].interimTranscript = <<>>
        /\ transcript = <<"h", " ", "w">>

\* C14: an interim result that changes the link's interim text puts the new text
\* in its place (never joined to the old one), leaves the final transcript as it
\* was, and the display is the final transcript followed by the new text, with
\* one space between them only when the final transcript is not empty.
C14_InterimSupersedes ==
    [][ \A l \in 1..Len(links) :
            (/\ Len(links') = Len(links)
             /\ links'[l].interimTranscript # <<>>
             /\ links'[l].interimTranscript # links[l].interimTranscript) =>
                /\ links'[l].interimTranscript \in Words
                /\ links'[l].finalTranscript = links[l].finalTranscript
                /\ links'[l].committed = links[l].committed
                /\ transcript' =
                      IF links[l].finalTranscript = <<>>
                      THEN links'[l].interimTranscript
                      ELSE links[l].finalTranscript \o <<" ">>
                               \o links'[l].interimTranscript ]_vars

C14_Witness ==
    \E l \in 1..Len(links) :
        /\ links[l].finalTranscript = <<"h">>
        /\ links[l].interimTranscript = <<"w">>
        /\ transcript = <<"h", " ", "w">>
        /\ Listening(St) /\ deepgramRef = l

\* every link of an earlier session whose socket is still open was asked to finish
EarlierLinksFinished ==
    \A l \in 1..Len(links) :
        (l # deepgramRef /\ links[l].sock = "open") => links[l].finishes > 0

\* C15: when an end signal is honoured in a Listening session (the links of
\* earlier sessions closed) and the paste is requested, the text of the request
\* is every final text the session's link has committed (the one of the ending
\* result included), in order and joined by single spaces, without interim text.
C15_PasteTextIsFinal ==
    [][ (/\ Listening(St) /\ EarlierLinksFinished
         /\ lastAct' \in Honoured /\ pastePending' > pastePending) =>
            /\ lastAct' = "ueHonoured" =>
                  pasteText' = << JoinAll(links[deepgramRef].committed) >>
            /\ lastAct' = "sfHonoured" =>
                  \E text \in Texts \ {<<>>} :
                      pasteText' =
                          << JoinAll(Append(links[deepgramRef].committed, text)) >> ]_vars

\* C17: Escape pressed while the session is Listening cancels it: isRecording
\* becomes false, the microphone is stopped and the link reference discarded.
C17_EscapeCancels ==
    [][ (Listening(St) /\ lastAct' \in {"escapeStop", "escapeMissed"}) =>
            /\ lastAct' = "escapeStop"
            /\ ~isRecording' /\ ~audioStream' /\ liveStreams' = 0
            /\ deepgramRef' = NoLink ]_vars

\* the link's connection is present and in the open state
Ready(L) == L.connection /\ L.sock = "open"

\* C18: a chunk handed to a link whose connection is absent or not open is
\* dropped: nothing is transmitted and no field of any link changes.
C18_SendDropsWhenNotReady ==
    [][ (/\ lastAct' = "chunk" /\ deepgramRef # NoLink
         /\ ~Ready(links[deepgramRef])) => links' = links ]_vars

C18_Witness ==
    /\ lastAct = "chunk" /\ deepgramRef # NoLink
    /\ ~links[deepgramRef].connection /\ links[deepgramRef].sent = 0
    /\ mediaRecorder

\* C19: stop() of a link is idempotent and safe in every state a link reaches:
\* a second stop() changes nothing, no link is asked to finish twice, and a link
\* whose connection is absent or not open is not asked to finish at all.
C19_StopIdempotent ==
    \A l \in 1..Len(links) :
        /\ LinkStop(LinkStop(links[l])) = LinkStop(links[l])
        /\ links[l].finishes <= 1
        /\ LinkStop(links[l]).finishes <= 1
        /\ ~Ready(links[l]) => LinkStop(links[l]).finishes = links[l].finishes
        /\ ~LinkStop(links[l]).connection
        /\ LinkStop(links[l]).finalTranscript = <<>>
        /\ LinkStop(links[l]).interimTranscript = <<>>
        /\ ~LinkStop(links[l]).hasSpeechFinal

C19_Witness ==
    /\ lastAct = "sfHonoured"
    /\ \E l \in 1..Len(links) :
           /\ links[l].finishes = 1 /\ ~links[l].connection
           /\ links[l].sock = "open" /\ links[l].finalTranscript = <<>>

\* the session had captured the microphone and an end signal ended it: no start()
\* is in flight, nothing failed, the microphone is released, the link discarded
Ended ==
    /\ epoch \in {"speech_final", "utterance_end"}
    /\ gumPending = 0 /\ error = NULL /\ liveStreams = 0 /\ deepgramRef = NoLink
    /\ ~isRecording

\* C20: once an end signal has been honoured, the displayed transcript is the
\* final text that was pasted, and until the hide request returns or the next
\* start() or stop() it is changed by no event.
C20_EndedShowsFinalOnly ==
    [][ /\ (lastAct' \in Honoured /\ pastePending' > pastePending /\ Ended') =>
              transcript' = pasteText'[1]
        /\ (Ended /\ Ended' /\ lastAct' \notin {"hideOk"} \cup Honoured) =>
              transcript' = transcript ]_vars

\* a is an initial part of b
IsPrefix(a, b) == Len(a) <= Len(b) /\ SubSeq(b, 1, Len(a)) = a

\* the steps that call stop() on a link
StopLabels == {"stop", "sfHonoured", "sfIgnored", "ueHonoured"} \cup Accepted

\* C21: in a step that stops no link, the finalTranscript of every link still
\* reachable either stays as it was or is extended by one whole final text (with
\* a space before it when the transcript was not empty): what it held remains
\* its initial part.
C21_FinalOnlyGrows ==
    [][ lastAct' \notin StopLabels =>
            \A l \in 1..Len(links) :
                (Len(links') = Len(links) /\ links'[l] # Collected) =>
                    /\ IsPrefix(links[l].finalTranscript, links'[l].finalTranscript)
                    /\ \/ links'[l].finalTranscript = links[l].finalTranscript
                       \/ \E text \in Words \ {<<>>} :
                              links'[l].finalTranscript =
                                  IF links[l].finalTranscript = <<>> THEN text
                                  ELSE links[l].finalTranscript \o <<" ">> \o text ]_vars

C21_Witness ==
    \E l \in 1..Len(links) :
        /\ links[l].connection /\ links[l].sock = "open"
        /\ links[l].finalTranscript = <<"w", " ", "h">>
        /\ links[l].committed = << <<"w">>, <<"h">> >>

\* C22: no step asks a link to finish and leaves the microphone capturing, and
\* the step that finishes the link the hook refers to discards that reference.
C22_MicStoppedBeforeFinish ==
    [][ \A l \in 1..Len(links) :
            (Len(links') >= l /\ links'[l].finishes > links[l].finishes) =>
                /\ liveStreams' = 0 /\ ~audioStream' /\ ~mediaRecorder'
                /\ deepgramRef' # l ]_vars

\* C23: the recorder hands no chunk to a link whose connection is still
\* connecting: when audio flows, the link start() opened is ready.
C23_LinkReadyBeforeAudio ==
    [][ (lastAct' = "chunk" /\ deepgramRef # NoLink) =>
            links[deepgramRef].sock # "connecting" ]_vars

\* C24: an UtteranceEnd that arrives while the session is Listening ends it,
\* whatever finalTranscript holds: hasEndedRef is set, the microphone and the
\* link are torn down and the session goes on to Processing.
C24_UtteranceEndEndsSession ==
    [][ (Listening(St) /\ lastAct' \in UeLabels) =>
            /\ lastAct' = "ueHonoured"
            /\ hasEndedRef' /\ ~isRecording' /\ ~audioStream'
            /\ deepgramRef' = NoLink ]_vars

\* C25: the chunks are passed to the link in the order the recorder produced
\* them: each chunk a Listening session passes to its link is a later one than
\* the chunk passed before it.
C25_ChunksInCaptureOrder ==
    [][ (lastAct' = "chunk" /\ Listening(St)) => lastHanded' > lastHanded ]_vars

\* C26: isRecording and isProcessing are never both true.
C26_NotRecordingAndProcessing == ~(isRecording /\ isProcessing)

\* C27: while a session is Listening, a result delivered by a link of an earlier
\* session, one that was stopped and asked to finish, does not touch the
\* session: its transcript, its microphone, its link and its phase stay as they
\* are and no paste is requested.
C27_StaleLinkEventsIgnored ==
    [][ \A l \in 1..Len(links) :
            (/\ Listening(St) /\ l # deepgramRef
             /\ ~links[l].connection /\ links[l].finishes > 0
             /\ Len(links') = Len(links)
             /\ links'[l] # links[l] /\ links'[l].sock = links[l].sock) =>
                UNCHANGED <<transcript, audioStream, mediaRecorder, liveStreams,
                            deepgramRef, isRecording, isProcessing, hasEndedRef,
                            pastePending, pasteText>> ]_vars

\* C28: while a start() awaits getUserMedia with isStartingRef set, neither the
\* return of an earlier session's hide request, nor a paste failure, nor an error
\* of the link clears isStartingRef.
C28_LatchHeldDuringStart ==
    [][ (/\ isStartingRef /\ gumPending > 0
         /\ lastAct' \in {"hideOk", "pasteFailed", "linkError"}) =>
            isStartingRef' ]_vars

\* C29: the settle timer and the hide request of an earlier session leave a
\* later session alone: while a session is Listening the timer requests no hide,
\* and the return of a hide request does not clear the transcript.
C29_CompletionSparesLaterSession ==
    [][ /\ (Listening(St) /\ lastAct' = "timer") => hidePending' = hidePending
        /\ (Listening(St) /\ lastAct' = "hideOk") => transcript' = transcript ]_vars

\* what the Transcript handler of link l makes of a result with empty text
OnEmpty(l, isFinal, speechFinal) ==
    [HandleTranscript(St, l, <<>>, isFinal, speechFinal) EXCEPT !.lastAct = lastAct]

\* C30: in every state, a result with empty text on any link, whatever its
\* is_final and speech_final flags, changes nothing: no transcript of the link,
\* nothing the callbacks set, and it does not end the session.
C30_EmptyTranscriptIgnored ==
    \A l \in 1..Len(links), isFinal \in BOOLEAN, speechFinal \in BOOLEAN :
        OnEmpty(l, isFinal, speechFinal) = St

C30_Witness ==
    /\ Listening(St)
    /\ links[deepgramRef].finalTranscript = <<"h">>
    /\ links[deepgramRef].interimTranscript = <<"h">>
    /\ transcript = <<"h", " ", "h">>
    /\ OnEmpty(deepgramRef, TRUE, TRUE) = St

\* C31: in every state in which no start() is in flight (none awaits
\* getUserMedia) and the session is not recording, isStartingRef is false, so
\* the guard of the next start() lets it through.
C31_RestartableWhenNotRecording ==
    (gumPending = 0 /\ ~isRecording) =>
        /\ ~isStartingRef
        /\ ~StartRejected(St, isRecording)
        /\ StartRecording(St, isRecording, FALSE).lastAct = "startAccepted"

C31_Witness ==
    /\ lastAct = "micFailed" /\ error = ErrFailedStart
    /\ gumPending = 0 /\ ~isRecording /\ ~isStartingRef
    /\ StartRecording(St, isRecording, FALSE).lastAct = "startAccepted"

====
